---- MODULE Spec2Model ----
(***************************************************************************)
(* A model of src/ojdata.py: the sparse row reconstruction (parse_row),    *)
(* the file name parser (parse_filename), the STOP search and the          *)
(* windowed column reduction (process_single_file) and the batch loop      *)
(* (process_multiple_files).                                                *)
(*                                                                         *)
(* Python values are modelled as follows.                                  *)
(*   str         a sequence of one-character strings                       *)
(*   Optional[x] a sequence of length 0 (None) or 1 (Some(x))              *)
(*   float       an exact rational [n, d] in lowest terms, d > 0           *)
(*   list        a sequence; Python's 0-based index i is position i+1      *)
(***************************************************************************)
EXTENDS Integers, Sequences, FiniteSets, TLC

VARIABLES
  \* parse_row
  cells, ci, row_values, current_index, rpc,
  \* parse_filename
  filename, name_out, npc,
  \* process_multiple_files / process_single_file
  file_list, fi, pc, parsed_rows, hash_col, tempo_col, subject,
  stop_row_index, T_stop, T_start, sums, counts, last_values, r,
  res, raised, results, measurement_headers, errors

rowVars == <<cells, ci, row_values, current_index, rpc>>
nameVars == <<filename, name_out, npc>>
fileVars == <<file_list, fi, pc, parsed_rows, hash_col, tempo_col, subject,
              stop_row_index, T_stop, T_start, sums, counts, last_values, r,
              res, raised, results, measurement_headers, errors>>
vars == <<rowVars, nameVars, fileVars>>

(***************************************************************************)
(* Bounds of the explored inputs.                                          *)
(***************************************************************************)
MaxCells == 3
MaxIndex == 3
MaxGiven == 2
MaxDrop == 3
MaxRows == 3
MaxFiles == 3

(***************************************************************************)
(* Optional values and small helpers.                                      *)
(***************************************************************************)
None == <<>>
Some(x) == <<x>>
Get(o) == o[1]

Min2(a, b) == IF a < b THEN a ELSE b
Max2(a, b) == IF a > b THEN a ELSE b
SetMax(S) == CHOOSE x \in S : \A y \in S : y <= x
SetMin(S) == CHOOSE x \in S : \A y \in S : x <= y
Abs(x) == IF x < 0 THEN -x ELSE x

\* Python list indexing with a 0-based index.
At(seq, i) == seq[i + 1]

\* Python slicing seq[a:b] for 0 <= a, 0 <= b.
Slice(seq, a, b) == SubSeq(seq, a + 1, Min2(b, Len(seq)))

(***************************************************************************)
(* Strings.                                                                *)
(***************************************************************************)
LowerCase == <<"a","b","c","d","e","f","g","h","i","j","k","l","m",
               "n","o","p","q","r","s","t","u","v","w","x","y","z">>
UpperCase == <<"A","B","C","D","E","F","G","H","I","J","K","L","M",
               "N","O","P","Q","R","S","T","U","V","W","X","Y","Z">>

UpperChar(c) ==
  IF \E i \in 1..26 : LowerCase[i] = c
  THEN UpperCase[CHOOSE i \in 1..26 : LowerCase[i] = c] ELSE c
LowerChar(c) ==
  IF \E i \in 1..26 : UpperCase[i] = c
  THEN LowerCase[CHOOSE i \in 1..26 : UpperCase[i] = c] ELSE c

\* str.upper(), str.lower()
Upper(s) == [i \in 1..Len(s) |-> UpperChar(s[i])]
Lower(s) == [i \in 1..Len(s) |-> LowerChar(s[i])]

\* str.startswith, str.endswith
StartsWith(s, p) == Len(s) >= Len(p) /\ SubSeq(s, 1, Len(p)) = p
EndsWith(s, p) == Len(s) >= Len(p) /\ SubSeq(s, Len(s) - Len(p) + 1, Len(s)) = p

\* `p in s` for strings: p occurs in s as a substring.
Contains(s, p) ==
  \E i \in 1..(Len(s) - Len(p) + 1) : SubSeq(s, i, i + Len(p) - 1) = p

\* s.replace(a, b) for single characters a, b.
Replace(s, a, b) == [i \in 1..Len(s) |-> IF s[i] = a THEN b ELSE s[i]]

\* s.strip(): leading and trailing blanks removed.
Strip(s) ==
  LET keep == {i \in 1..Len(s) : s[i] # " "}
  IN IF keep = {} THEN <<>> ELSE SubSeq(s, SetMin(keep), SetMax(keep))

\* s.split(sep) for a single character sep: always at least one token.
RECURSIVE Split(_, _)
Split(s, sep) ==
  LET hits == {i \in 1..Len(s) : s[i] = sep}
  IN IF hits = {} THEN <<s>>
     ELSE LET p == SetMin(hits)
          IN <<SubSeq(s, 1, p - 1)>> \o Split(SubSeq(s, p + 1, Len(s)), sep)

\* sep.join(tokens)
RECURSIVE Join(_, _)
Join(tokens, sep) ==
  IF tokens = <<>> THEN <<>>
  ELSE IF Len(tokens) = 1 THEN tokens[1]
  ELSE tokens[1] \o sep \o Join(Tail(tokens), sep)

\* os.path.basename: what follows the last "/".
Basename(s) ==
  LET hits == {i \in 1..Len(s) : s[i] = "/"}
  IN IF hits = {} THEN s ELSE SubSeq(s, SetMax(hits) + 1, Len(s))

(***************************************************************************)
(* Numbers: int() and float() of a string.                                 *)
(***************************************************************************)
Digits == <<"0","1","2","3","4","5","6","7","8","9">>
IsDigit(c) == \E i \in 1..10 : Digits[i] = c
DigitVal(c) == (CHOOSE i \in 1..10 : Digits[i] = c) - 1

RECURSIVE DigitsToNat(_)
DigitsToNat(s) ==
  IF s = <<>> THEN 0
  ELSE DigitsToNat(SubSeq(s, 1, Len(s) - 1)) * 10 + DigitVal(s[Len(s)])

RECURSIVE Pow10(_)
Pow10(k) == IF k = 0 THEN 1 ELSE 10 * Pow10(k - 1)

RECURSIVE Gcd(_, _)
Gcd(a, b) == IF b = 0 THEN a ELSE Gcd(b, a % b)

\* A rational in lowest terms with a positive denominator.
Rat(n, d) ==
  LET g == Gcd(Abs(n), d)
  IN IF n = 0 THEN [n |-> 0, d |-> 1] ELSE [n |-> n \div g, d |-> d \div g]
RInt(k) == Rat(k, 1)
RAdd(a, b) == Rat(a.n * b.d + b.n * a.d, a.d * b.d)
RSub(a, b) == Rat(a.n * b.d - b.n * a.d, a.d * b.d)
RDivInt(a, k) == Rat(a.n, a.d * k)
RLeq(a, b) == a.n * b.d <= b.n * a.d

\* int(s) for an ss:Index attribute: a non-empty run of decimal digits
\* (None models ValueError).
IntOf(s) ==
  IF s # <<>> /\ \A i \in 1..Len(s) : IsDigit(s[i])
  THEN Some(DigitsToNat(s)) ELSE None

\* float(s): blanks stripped, an optional sign, decimal digits with at most
\* one ".", at least one digit; anything else is ValueError (None).  The
\* strings of the model hold no exponent, "inf", "nan" or "_" spellings.
Float(s) ==
  LET t == Strip(s)
      signed == t # <<>> /\ t[1] \in {"-", "+"}
      body == IF signed THEN Tail(t) ELSE t
      dots == {i \in 1..Len(body) : body[i] = "."}
      digs == {i \in 1..Len(body) : IsDigit(body[i])}
  IN IF digs = {} \/ Cardinality(dots) > 1
        \/ Cardinality(dots) + Cardinality(digs) # Len(body)
     THEN None
     ELSE LET p == IF dots = {} THEN Len(body) + 1 ELSE SetMin(dots)
              ip == SubSeq(body, 1, p - 1)
              fp == SubSeq(body, p + 1, Len(body))
              m == DigitsToNat(ip \o fp)
          IN Some(Rat(IF signed /\ t[1] = "-" THEN -m ELSE m, Pow10(Len(fp))))

\* float(text.replace(',', '.')), the conversion used for every data cell.
CellFloat(text) == Float(Replace(text, ",", "."))

(***************************************************************************)
(* parse_row.  An XML cell is [index, data]: the ss:Index attribute        *)
(* (Optional[str]) and the text of its ss:Data child (Optional[str]; None  *)
(* when the cell has no Data child or the child is empty).                 *)
(***************************************************************************)
Cell(index, data) == [index |-> index, data |-> data]

\* A mutation of PadCount: one placeholder too few.
PadCountShort(cur, index_val) ==
  IF cur < index_val THEN index_val - cur - 1 ELSE 0

\* A mutation of PadCount: the gap is measured from the start of the row.
PadCountFromStart(cur, index_val) ==
  IF cur < index_val THEN index_val - 1 ELSE 0

\* The number of None placeholders the while loop appends.
PadCount(cur, index_val) ==
  IF cur < index_val THEN index_val - cur ELSE 0

Nones(k) == [i \in 1..k |-> None]

\* One iteration of the for loop over the cells of a row.
RowStep(st, cell) ==
  LET pad == IF cell.index # None
             THEN PadCount(st.current_index, Get(IntOf(Get(cell.index))))
             ELSE 0
  IN [row_values |-> st.row_values \o Nones(pad) \o <<cell.data>>,
      current_index |-> st.current_index + pad + 1]

RECURSIVE RowFold(_, _)
RowFold(st, cs) ==
  IF cs = <<>> THEN st ELSE RowFold(RowStep(st, Head(cs)), Tail(cs))

\* parse_row(row, ns) as a function of the row's cells.
ParseRow(cs) == RowFold([row_values |-> <<>>, current_index |-> 1], cs).row_values

\* The inputs of the row specification.
DataTexts == {None, Some(<<"a">>), Some(<<"c">>)}
CellInputs(max_index) ==
  {Cell(ix, d) : ix \in {None} \cup {Some(<<Digits[i + 1]>>) : i \in 1..max_index},
                 d \in DataTexts}
RECURSIVE SeqsUpTo(_, _)
SeqsUpTo(S, k) ==
  IF k = 0 THEN {<<>>}
  ELSE LET shorter == SeqsUpTo(S, k - 1)
       IN shorter \cup {Append(s, x) : s \in {t \in shorter : Len(t) = k - 1}, x \in S}

RowIdle ==
  /\ cells = <<>> /\ ci = 0 /\ row_values = <<>> /\ current_index = 1
  /\ rpc = "off"

RowInit ==
  /\ cells \in SeqsUpTo(CellInputs(MaxIndex), MaxCells)
  /\ ci = 0
  /\ row_values = <<>>
  /\ current_index = 1
  /\ rpc = "loop"

ParseRowCell ==
  /\ rpc = "loop"
  /\ ci < Len(cells)
  /\ LET st == RowStep([row_values |-> row_values,
                        current_index |-> current_index], cells[ci + 1])
     IN /\ row_values' = st.row_values
        /\ current_index' = st.current_index
  /\ ci' = ci + 1
  /\ UNCHANGED <<cells, rpc, nameVars, fileVars>>

ParseRowReturn ==
  /\ rpc = "loop"
  /\ ci = Len(cells)
  /\ rpc' = "done"
  /\ UNCHANGED <<cells, ci, row_values, current_index, nameVars, fileVars>>

(***************************************************************************)
(* parse_filename.  The outcome of a call that may raise is a record        *)
(* [ok, err, val]: val is the returned value when ok, err names the         *)
(* exception otherwise.                                                     *)
(***************************************************************************)
Ok(v) == [ok |-> TRUE, err |-> "", val |-> v]
Raise(e) == [ok |-> FALSE, err |-> e, val |-> <<>>]

TREADMILL == <<"T","r","e","a","d","m","i","l","l">>
DOT_XML == <<".","x","m","l">>
NM == <<"N","M">>
M == <<"M">>
NO_MUSICA == <<"n","o"," ","m","u","s","i","c","a">>
MUSICA == <<"m","u","s","i","c","a">>

\* base, with a case-insensitive ".xml" suffix removed, split on "_".
FileTokens(fn) ==
  LET base == Basename(fn)
      stem == IF EndsWith(Lower(base), DOT_XML)
              THEN SubSeq(base, 1, Len(base) - 4) ELSE base
  IN Split(stem, "_")

\* tokens.index("Treadmill"): the 0-based index of the first such token,
\* None for ValueError.
TreadmillIndex(tokens) ==
  LET hits == {i \in 1..Len(tokens) : tokens[i] = TREADMILL}
  IN IF hits = {} THEN None ELSE Some(SetMin(hits) - 1)

\* A mutation of EnoughTokens: the threshold is one token short.
EnoughTokensShort(n, treadmill_idx) == ~(n < treadmill_idx + 10)

\* The negation of the guard `len(tokens) < treadmill_idx + 11`.
EnoughTokens(n, treadmill_idx) == ~(n < treadmill_idx + 11)

\* A mutation of SessionIndex: the token after the documented one.
SessionIndexLate(treadmill_idx) == treadmill_idx + 10

\* The index of the session token; the music token is the next one.
SessionIndex(treadmill_idx) == treadmill_idx + 9

\* The music label of the raw music token.
Musica(musica_token_raw) ==
  LET musica_token == IF \E i \in 1..Len(musica_token_raw) : musica_token_raw[i] = "."
                      THEN Split(musica_token_raw, ".")[1]
                      ELSE musica_token_raw
  IN IF StartsWith(Upper(musica_token), NM) THEN NO_MUSICA
     ELSE IF StartsWith(Upper(musica_token), M) THEN MUSICA
     ELSE musica_token

\* parse_filename(filename).  A list index past the end raises IndexError.
ParseFilename(fn) ==
  LET tokens == FileTokens(fn)
      ti == TreadmillIndex(tokens)
  IN IF ti = None THEN Raise("ValueError: no Treadmill")
     ELSE LET treadmill_idx == Get(ti)
              surname == At(tokens, 0)
              name == Join(Slice(tokens, 1, treadmill_idx), <<" ">>)
              si == SessionIndex(treadmill_idx)
          IN IF ~EnoughTokens(Len(tokens), treadmill_idx)
             THEN Raise("ValueError: not enough tokens")
             ELSE IF si + 1 >= Len(tokens) THEN Raise("IndexError")
             ELSE Ok([surname |-> surname, name |-> name,
                      session |-> At(tokens, si),
                      musica |-> Musica(At(tokens, si + 1))])

\* The file names of the name specification: an optional directory, the
\* surname, up to MaxGiven given names, the marker token, the speed written
\* as one token ("8km", the docstring's form) or two ("8", "km"), "h", six
\* date and time tokens, the session and the music token, with up to
\* MaxDrop trailing tokens dropped, and an extension.
DOE == <<"D","o","e">>
JOHN == <<"J","o","h","n">>
LEE == <<"L","e","e">>
DateTokens == <<<<"h">>, <<"0","1">>, <<"0","1">>, <<"2","0","2","4">>, <<"1","0">>, <<"0","0">>, <<"0","0">>>>
SpeedForms == {<<<<"8","k","m">>>>, <<<<"8">>, <<"k","m">>>>}
MarkerForms == {TREADMILL, <<"t","r","e","a","d","m","i","l","l">>}
SessionTokens == {<<"S","1">>, <<"T","2">>}
MusicTokens == {<<"M">>, <<"N","M">>, <<"M","1">>, <<"n","m","2">>, <<"X","Y","Z">>, <<"m">>, <<"M",".","v","2">>}
Extensions == {<<>>, DOT_XML, <<".","X","M","L">>}
Directories == {<<>>, <<"a","_","b","/">>}

MkFilename(dir, given, marker, speed, session, music, drop, ext) ==
  LET all == <<DOE>> \o given \o <<marker>> \o speed \o DateTokens
             \o <<session, music>>
  IN dir \o Join(SubSeq(all, 1, Len(all) - drop), <<"_">>) \o ext

Filenames(max_given, max_drop) ==
  {MkFilename(dir, given, marker, speed, session, music, drop, ext) :
     dir \in Directories, given \in SeqsUpTo({JOHN, LEE}, max_given),
     marker \in MarkerForms, speed \in SpeedForms, session \in SessionTokens,
     music \in MusicTokens, drop \in 0..max_drop, ext \in Extensions}

NameIdle == filename = <<>> /\ name_out = Raise("") /\ npc = "off"

NameInit ==
  /\ filename \in Filenames(MaxGiven, MaxDrop)
  /\ name_out = Raise("")
  /\ npc = "call"

CallParseFilename ==
  /\ npc = "call"
  /\ name_out' = ParseFilename(filename)
  /\ npc' = "done"
  /\ UNCHANGED <<filename, rowVars, fileVars>>

(***************************************************************************)
(* process_single_file.  An uploaded file is [name, table]: its name and    *)
(* the XML rows of the table of worksheet "Dati OJ" (None when the          *)
(* worksheet or the table is missing); an XML row is a sequence of cells.   *)
(***************************************************************************)
HASH == <<"#">>
TEMPO == <<"T","e","m","p","o","[","s","]">>
STOP_MARK == <<"I","m","p","u","l","s","o"," ","e","s","t","e","r","n","o"," ","S","T","O","P">>
HASH_DEFAULT == 23
TEMPO_DEFAULT == 25
WINDOW == 900

\* Python truthiness of an Optional[str]: neither None nor "".
Truthy(o) == o # None /\ Get(o) # <<>>

\* header.index(name) with the except branch's default.
HeaderIndex(header, name, default) ==
  LET hits == {i \in 1..Len(header) : header[i] = Some(name)}
  IN IF hits = {} THEN default ELSE SetMin(hits) - 1

\* The first index of `for i, row in enumerate(parsed_rows)`.
ScanFirst == 0

\* The STOP search loop from row i on: the first row whose marker cell
\* contains the STOP text, with its time; the loop breaks there.
RECURSIVE ScanStop(_, _, _, _)
ScanStop(rows, hc, tc, i) ==
  IF i >= Len(rows) THEN Ok([stop_row_index |-> None, T_stop |-> None])
  ELSE LET row == At(rows, i)
       IN IF Len(row) > hc /\ Truthy(At(row, hc))
             /\ Contains(Get(At(row, hc)), STOP_MARK)
          THEN IF Len(row) > tc /\ Truthy(At(row, tc))
               THEN LET t == CellFloat(Get(At(row, tc)))
                    IN IF t = None
                       THEN Raise("ValueError: invalid Tempo[s] in the STOP row")
                       ELSE Ok([stop_row_index |-> Some(i), T_stop |-> t])
               ELSE Ok([stop_row_index |-> Some(i), T_stop |-> None])
          ELSE ScanStop(rows, hc, tc, i + 1)

\* T_start = T_stop - 900.0
WindowStart(t_stop) == RSub(t_stop, RInt(WINDOW))

\* A mutation of InWindow: the lower boundary is exclusive.
InWindowOpenStart(t_start, t_val, t_stop) ==
  RLeq(t_start, t_val) /\ t_start # t_val /\ RLeq(t_val, t_stop)

\* T_start <= t_val <= T_stop
InWindow(t_start, t_val, t_stop) == RLeq(t_start, t_val) /\ RLeq(t_val, t_stop)

\* A mutation of LastRow: the STOP row is reduced too.
LastRowWithStop(stop_idx, n) == Min2(stop_idx + 1, n)

\* The end of the slice parsed_rows[1:stop_row_index].
LastRow(stop_idx, n) == Min2(stop_idx, n)

\* A mutation of IsDistanceCol: no column is treated as the distance.
IsDistanceColNever(col) == FALSE

\* col == tempo_col + 1
IsDistanceCol(col) == col = tempo_col + 1

\* A mutation of MeanOrNone: a column without values averages to zero.
MeanOrZero(sum, count) ==
  IF count > 0 THEN Some(RDivInt(sum, count)) ELSE Some(RInt(0))

\* sums[col] / counts[col] when counts[col] > 0, None otherwise.
MeanOrNone(sum, count) ==
  IF count > 0 THEN Some(RDivInt(sum, count)) ELSE None

\* The body of `for col in range(tempo_col+1, num_cols)` for one cell.
ReduceCell(acc, row, col) ==
  IF col < Len(row) /\ Truthy(At(row, col)) /\ Strip(Get(At(row, col))) # <<>>
  THEN LET val == CellFloat(Get(At(row, col)))
       IN IF val = None THEN acc
          ELSE IF IsDistanceCol(col)
               THEN [acc EXCEPT !.last_values[col] = val]
               ELSE [acc EXCEPT !.sums[col] = RAdd(@, Get(val)),
                                !.counts[col] = @ + 1]
  ELSE acc

RECURSIVE ColLoop(_, _, _, _)
ColLoop(acc, row, col, num_cols) ==
  IF col >= num_cols THEN acc
  ELSE ColLoop(ReduceCell(acc, row, col), row, col + 1, num_cols)

\* The body of `for row in parsed_rows[1:stop_row_index]` for one row.
ReduceOneRow(acc, row, tc, num_cols, t_start, t_stop) ==
  IF Len(row) > tc /\ Truthy(At(row, tc))
  THEN LET t_val == CellFloat(Get(At(row, tc)))
       IN IF t_val = None THEN acc
          ELSE IF InWindow(t_start, Get(t_val), t_stop)
               THEN ColLoop(acc, row, tc + 1, num_cols)
               ELSE acc
  ELSE acc

\* A mutation of CaptureHeaders: every success overwrites the headers.
CaptureHeadersLast(current, found) == Some(found)

\* if measurement_headers is None: measurement_headers = res[...]
CaptureHeaders(current, found) == IF current = None THEN Some(found) ELSE current

FrameIdle ==
  /\ parsed_rows = <<>> /\ hash_col = 0 /\ tempo_col = 0 /\ subject = <<>>
  /\ stop_row_index = None /\ T_stop = None /\ T_start = None
  /\ sums = <<>> /\ counts = <<>> /\ last_values = <<>> /\ r = 0
  /\ res = <<>> /\ raised = ""

\* The locals of process_single_file are dropped when the call ends.
DropFrame ==
  /\ parsed_rows' = <<>> /\ hash_col' = 0 /\ tempo_col' = 0 /\ subject' = <<>>
  /\ stop_row_index' = None /\ T_stop' = None /\ T_start' = None
  /\ sums' = <<>> /\ counts' = <<>> /\ last_values' = <<>> /\ r' = 0
  /\ res' = <<>> /\ raised' = ""

FileIdle ==
  /\ file_list = <<>> /\ fi = 0 /\ pc = "off" /\ FrameIdle
  /\ results = <<>> /\ measurement_headers = None /\ errors = <<>>

frame == <<parsed_rows, hash_col, tempo_col, subject, stop_row_index, T_stop,
           T_start, sums, counts, last_values, r, res, raised>>
batch == <<file_list, fi, results, measurement_headers, errors>>

up_file == Get(file_list[fi + 1])

\* for up_file in file_list: if up_file is not None: process_single_file(...)
NextFile ==
  /\ pc = "loop"
  /\ fi < Len(file_list)
  /\ IF file_list[fi + 1] = None
     THEN fi' = fi + 1 /\ pc' = "loop"
     ELSE fi' = fi /\ pc' = "prepare"
  /\ UNCHANGED <<file_list, results, measurement_headers, errors, frame,
                 rowVars, nameVars>>

\* Lines 82-108: the table, the reconstructed rows, the marker and time
\* columns, the subject from the file name.
Prepare ==
  /\ pc = "prepare"
  /\ LET table == up_file.table
         rows == IF table = None THEN <<>>
                 ELSE [i \in 1..Len(Get(table)) |-> ParseRow(Get(table)[i])]
         meta == ParseFilename(up_file.name)
     IN IF table = None
        THEN /\ pc' = "raised" /\ raised' = "ValueError: no worksheet or table"
             /\ UNCHANGED <<parsed_rows, hash_col, tempo_col, subject>>
        ELSE IF Len(rows) < 2
        THEN /\ pc' = "raised" /\ raised' = "ValueError: not enough rows"
             /\ UNCHANGED <<parsed_rows, hash_col, tempo_col, subject>>
        ELSE /\ parsed_rows' = rows
             /\ hash_col' = HeaderIndex(rows[1], HASH, HASH_DEFAULT)
             /\ tempo_col' = HeaderIndex(rows[1], TEMPO, TEMPO_DEFAULT)
             /\ IF meta.ok
                THEN pc' = "scan" /\ subject' = meta.val /\ raised' = raised
                ELSE pc' = "raised" /\ subject' = subject /\ raised' = meta.err
  /\ UNCHANGED <<batch, stop_row_index, T_stop, T_start, sums, counts,
                 last_values, r, res, rowVars, nameVars>>

\* Lines 110-131: the STOP search, the window and the accumulators.
FindStop ==
  /\ pc = "scan"
  /\ LET found == ScanStop(parsed_rows, hash_col, tempo_col, ScanFirst)
         cols == (tempo_col + 1)..(Len(parsed_rows[1]) - 1)
     IN IF ~found.ok
        THEN /\ pc' = "raised" /\ raised' = found.err
             /\ UNCHANGED <<stop_row_index, T_stop, T_start, sums, counts,
                            last_values, r>>
        ELSE /\ stop_row_index' = found.val.stop_row_index
             /\ T_stop' = found.val.T_stop
             /\ IF found.val.stop_row_index = None \/ found.val.T_stop = None
                THEN /\ pc' = "raised"
                     /\ raised' = "ValueError: no valid STOP row"
                     /\ UNCHANGED <<T_start, sums, counts, last_values, r>>
                ELSE /\ pc' = "reduce"
                     /\ T_start' = Some(WindowStart(Get(found.val.T_stop)))
                     /\ sums' = [col \in cols |-> RInt(0)]
                     /\ counts' = [col \in cols |-> 0]
                     /\ last_values' = [col \in cols |-> None]
                     /\ r' = 1
                     /\ raised' = raised
  /\ UNCHANGED <<batch, parsed_rows, hash_col, tempo_col, subject, res,
                 rowVars, nameVars>>

\* Lines 134-152: one row of parsed_rows[1:stop_row_index].
ReduceRow ==
  /\ pc = "reduce"
  /\ r < LastRow(Get(stop_row_index), Len(parsed_rows))
  /\ LET acc == ReduceOneRow(
                  [sums |-> sums, counts |-> counts, last_values |-> last_values],
                  At(parsed_rows, r), tempo_col, Len(parsed_rows[1]),
                  Get(T_start), Get(T_stop))
     IN /\ sums' = acc.sums
        /\ counts' = acc.counts
        /\ last_values' = acc.last_values
  /\ r' = r + 1
  /\ UNCHANGED <<batch, pc, parsed_rows, hash_col, tempo_col, subject,
                 stop_row_index, T_stop, T_start, res, raised, rowVars, nameVars>>

\* Lines 154-182: the averages and the returned dictionary.
Finish ==
  /\ pc = "reduce"
  /\ r >= LastRow(Get(stop_row_index), Len(parsed_rows))
  /\ LET header == parsed_rows[1]
         num_cols == Len(header)
         n == Max2(0, num_cols - tempo_col - 1)
         averages == [col \in (tempo_col + 1)..(num_cols - 1) |->
                        IF IsDistanceCol(col) THEN last_values[col]
                        ELSE MeanOrNone(sums[col], counts[col])]
     IN res' = [Cognome |-> subject.surname, Nome |-> subject.name,
                Sessione |-> subject.session, Musica |-> subject.musica,
                T_start |-> Get(T_start), T_stop |-> Get(T_stop),
                Measurements |-> [k \in 1..n |-> averages[tempo_col + k]],
                MeasurementHeaders |-> Slice(header, tempo_col + 1, num_cols)]
  /\ pc' = "done"
  /\ UNCHANGED <<batch, parsed_rows, hash_col, tempo_col, subject,
                 stop_row_index, T_stop, T_start, sums, counts, last_values, r,
                 raised, rowVars, nameVars>>

\* Lines 191-193: the result is appended, the first headers are kept.
Collect ==
  /\ pc = "done"
  /\ results' = Append(results, res)
  /\ measurement_headers' = CaptureHeaders(measurement_headers, res.MeasurementHeaders)
  /\ fi' = fi + 1
  /\ pc' = "loop"
  /\ DropFrame
  /\ UNCHANGED <<file_list, errors, rowVars, nameVars>>

\* Lines 194-195: the exception is reported with the file's name.
Catch ==
  /\ pc = "raised"
  /\ errors' = Append(errors, [file |-> up_file.name, error |-> raised])
  /\ fi' = fi + 1
  /\ pc' = "loop"
  /\ DropFrame
  /\ UNCHANGED <<file_list, results, measurement_headers, rowVars, nameVars>>

\* Line 196: return results, measurement_headers
Return ==
  /\ pc = "loop"
  /\ fi = Len(file_list)
  /\ pc' = "returned"
  /\ UNCHANGED <<batch, frame, rowVars, nameVars>>

FileNext ==
  \/ NextFile \/ Prepare \/ FindStop \/ ReduceRow \/ Finish
  \/ Collect \/ Catch \/ Return

(***************************************************************************)
(* The uploaded files of the specifications.  A table is written from row   *)
(* descriptors the way the instrument's export writes it: an empty cell is  *)
(* left out, and the cell after a gap carries its 1-based ss:Index.         *)
(***************************************************************************)
RECURSIVE NatToDigits(_)
NatToDigits(k) ==
  IF k < 10 THEN <<Digits[k + 1]>>
  ELSE NatToDigits(k \div 10) \o <<Digits[(k % 10) + 1]>>

\* desc: a sequence of <<0-based column, Optional[str]>> in column order;
\* next: the column a cell without ss:Index would land in.
RECURSIVE Sparse(_, _)
Sparse(desc, next) ==
  IF desc = <<>> THEN <<>>
  ELSE LET col == Head(desc)[1]
           text == Head(desc)[2]
       IN IF text = None THEN Sparse(Tail(desc), next)
          ELSE <<Cell(IF col = next THEN None ELSE Some(NatToDigits(col + 1)), text)>>
               \o Sparse(Tail(desc), col + 1)

EVENTO == <<"E","v","e","n","t","o">>
START_MARK == <<"I","m","p","u","l","s","o"," ","e","s","t","e","r","n","o"," ","S","T","A","R","T">>
STOP_NOTE == <<"2"," ","I","m","p","u","l","s","o"," ","e","s","t","e","r","n","o"," ","S","T","O","P","!">>

\* The export's layout with the documented header names.
Named ==
  [hash |-> 0, tempo |-> 2,
   header |-> Some(<< <<0, Some(HASH)>>, <<1, Some(EVENTO)>>, <<2, Some(TEMPO)>>,
                      <<3, Some(<<"D","i","s","t","a","n","z","a","[","m","]">>)>>, <<4, Some(<<"V">>)>>,
                      <<5, Some(<<"W">>)>> >>)]
\* The canonical positions under renamed headers.
Renamed ==
  [hash |-> HASH_DEFAULT, tempo |-> TEMPO_DEFAULT,
   header |-> Some(<< <<HASH_DEFAULT, Some(<<"N","r">>)>>,
                      <<TEMPO_DEFAULT, Some(<<"T","i","m","e">>)>>,
                      <<TEMPO_DEFAULT + 1, Some(<<"D","i","s","t">>)>>,
                      <<TEMPO_DEFAULT + 2, Some(<<"V">>)>>,
                      <<TEMPO_DEFAULT + 3, Some(<<"W">>)>> >>)]
\* The canonical positions in a table exported without a header row.
Headless == [hash |-> HASH_DEFAULT, tempo |-> TEMPO_DEFAULT, header |-> None]

MkRow(lay, row) ==
  Sparse(<< <<lay.hash, row.marker>>, <<lay.tempo, row.time>>,
            <<lay.tempo + 1, row.d>>, <<lay.tempo + 2, row.v>>,
            <<lay.tempo + 3, row.w>> >>, 0)

MkTable(lay, rows) ==
  (IF lay.header = None THEN <<>> ELSE <<Sparse(Get(lay.header), 0)>>)
  \o [i \in 1..Len(rows) |-> MkRow(lay, rows[i])]

File(name, lay, rows) == [name |-> name, table |-> Some(MkTable(lay, rows))]

GoodName ==
  MkFilename(<<>>, <<JOHN>>, TREADMILL, <<<<"8","k","m">>>>, <<"S","1">>, <<"M">>, 0, DOT_XML)
OtherName ==
  MkFilename(<<>>, <<LEE, JOHN>>, TREADMILL, <<<<"8","k","m">>>>, <<"T","2">>, <<"n","m","2">>, 0, DOT_XML)
BadName ==
  MkFilename(<<>>, <<JOHN>>, <<"t","r","e","a","d","m","i","l","l">>, <<<<"8","k","m">>>>, <<"S","1">>, <<"M">>, 0, DOT_XML)

\* Rows that vary the marker and the time cell.
StopRows ==
  {[marker |-> mt[1], time |-> mt[2], d |-> Some(<<"1">>), v |-> Some(<<"2">>), w |-> None] :
     mt \in {<<None, None>>, <<None, Some(<<"1","0","0","0">>)>>,
             <<Some(START_MARK), Some(<<"x">>)>>, <<Some(START_MARK), Some(<<"1","0","0","0">>)>>,
             <<Some(STOP_MARK), None>>, <<Some(STOP_MARK), Some(<<"x">>)>>,
             <<Some(STOP_MARK), Some(<<"1","0","0","0">>)>>, <<Some(STOP_NOTE), Some(<<"9","0","0",",","5">>)>>}}

StopFiles(n) ==
  {File(GoodName, lay, rows) :
     lay \in {Named, Renamed, Headless}, rows \in SeqsUpTo(StopRows, n)}
  \cup {File(BadName, Named, rows) : rows \in SeqsUpTo(StopRows, 1)}

\* Rows that vary the time cell around the window's two boundaries.
WindowRows ==
  {[marker |-> None, time |-> None, d |-> Some(<<"1">>), v |-> Some(<<"2">>), w |-> Some(<<"3",".","5">>)],
   [marker |-> None, time |-> Some(<<"x">>), d |-> Some(<<"1">>), v |-> Some(<<"2">>), w |-> Some(<<"3",".","5">>)],
   [marker |-> None, time |-> Some(<<"1","0","0">>), d |-> Some(<<"1">>), v |-> Some(<<"2">>), w |-> Some(<<"3",".","5">>)],
   [marker |-> None, time |-> Some(<<"9","9",",","9">>), d |-> Some(<<"1">>), v |-> Some(<<"2">>), w |-> Some(<<"3",".","5">>)],
   [marker |-> None, time |-> Some(<<"1","0","0","0">>), d |-> Some(<<"1">>), v |-> Some(<<"2">>), w |-> Some(<<"3",".","5">>)],
   [marker |-> None, time |-> Some(<<"1","0","0","0",".","1">>), d |-> Some(<<"1">>), v |-> Some(<<"2">>), w |-> Some(<<"3",".","5">>)],
   [marker |-> None, time |-> Some(<<" ","5","0","0"," ">>), d |-> Some(<<"1">>), v |-> Some(<<"2">>), w |-> Some(<<"3",".","5">>)],
   [marker |-> None, time |-> Some(<<"-","4","0","0">>), d |-> Some(<<"1">>), v |-> Some(<<"2">>), w |-> Some(<<"3",".","5">>)],
   [marker |-> Some(STOP_MARK), time |-> Some(<<"1","0","0","0">>), d |-> Some(<<"1">>), v |-> Some(<<"2">>), w |-> Some(<<"3",".","5">>)],
   [marker |-> Some(STOP_MARK), time |-> Some(<<"5","0","0">>), d |-> Some(<<"1">>), v |-> Some(<<"2">>), w |-> Some(<<"3",".","5">>)]}

WindowFiles(n) ==
  {File(GoodName, lay, rows) :
     lay \in {Named, Renamed}, rows \in SeqsUpTo(WindowRows, n)}

\* Rows that vary the measurement cells.
ReduceRows ==
  {[marker |-> None, time |-> Some(<<"5","0","0">>), d |-> Some(<<"1",",","5">>), v |-> Some(<<"2">>), w |-> None],
   [marker |-> None, time |-> Some(<<"5","0","0">>), d |-> Some(<<"2">>), v |-> Some(<<"1",",","5">>), w |-> Some(<<"x">>)],
   [marker |-> None, time |-> Some(<<"5","0","0">>), d |-> Some(<<" ">>), v |-> None, w |-> Some(<<" ">>)],
   [marker |-> None, time |-> Some(<<"5","0","0">>), d |-> Some(<<"x">>), v |-> Some(<<" ","4"," ">>), w |-> Some(<<"1",",","5">>)],
   [marker |-> None, time |-> Some(<<"5","0","0">>), d |-> None, v |-> Some(<<"x">>), w |-> Some(<<"3">>)],
   [marker |-> None, time |-> Some(<<"5","0">>), d |-> Some(<<"9">>), v |-> Some(<<"9">>), w |-> Some(<<"9">>)],
   [marker |-> Some(STOP_MARK), time |-> Some(<<"1","0","0","0">>), d |-> Some(<<"7">>), v |-> Some(<<"7">>), w |-> Some(<<"7">>)]}

ReduceFiles(n) ==
  {File(GoodName, Named, rows) : rows \in SeqsUpTo(ReduceRows, n + 1)}
  \cup {File(GoodName, Renamed, rows) : rows \in SeqsUpTo(ReduceRows, n)}

\* The files of a batch: two that succeed, with different headers, and one
\* for each way of failing; a list entry may also be None.
InRow == [marker |-> None, time |-> Some(<<"5","0","0">>), d |-> Some(<<"1",",","5">>), v |-> Some(<<"2">>), w |-> Some(<<"3">>)]
InRow2 == [marker |-> None, time |-> Some(<<"6","0","0">>), d |-> Some(<<"2",",","5">>), v |-> Some(<<"4">>), w |-> None]
StopRow == [marker |-> Some(STOP_MARK), time |-> Some(<<"1","0","0","0">>), d |-> Some(<<"7">>), v |-> Some(<<"7">>), w |-> Some(<<"7">>)]
GoodA == File(GoodName, Named, <<InRow, InRow2, StopRow>>)
GoodB == File(OtherName, Renamed, <<InRow, StopRow>>)
NoStopFile == File(GoodName, Named, <<InRow, InRow2>>)
BadNameFile == File(BadName, Renamed, <<InRow, StopRow>>)
NoSheetFile == [name |-> GoodName, table |-> None]
BatchEntries ==
  {None, Some(GoodA), Some(GoodB), Some(NoStopFile), Some(BadNameFile),
   Some(NoSheetFile)}

FileInit(lists) ==
  /\ file_list \in lists
  /\ fi = 0
  /\ pc = "loop"
  /\ FrameIdle
  /\ results = <<>>
  /\ measurement_headers = None
  /\ errors = <<>>

(***************************************************************************)
(* The specifications.                                                      *)
(***************************************************************************)
\* process_multiple_files on one file that varies the STOP rows.
Init == RowIdle /\ NameIdle /\ FileInit({<<Some(f)>> : f \in StopFiles(MaxRows)})
Next == FileNext
Spec == Init /\ [][Next]_vars

\* ... on one file that varies the time cells.
WindowInit == RowIdle /\ NameIdle /\ FileInit({<<Some(f)>> : f \in WindowFiles(MaxRows)})
SpecWindow == WindowInit /\ [][Next]_vars

\* ... on one file that varies the measurement cells.
ReduceInit == RowIdle /\ NameIdle /\ FileInit({<<Some(f)>> : f \in ReduceFiles(MaxRows)})
SpecReduce == ReduceInit /\ [][Next]_vars

\* ... on every list of up to MaxFiles entries.
BatchInit == RowIdle /\ NameIdle /\ FileInit(SeqsUpTo(BatchEntries, MaxFiles))
SpecBatch == BatchInit /\ [][Next]_vars

\* parse_row on every row of up to MaxCells cells.
RowSpecInit == RowInit /\ NameIdle /\ FileIdle
RowNext == ParseRowCell \/ ParseRowReturn
SpecRow == RowSpecInit /\ [][RowNext]_vars

\* parse_filename on every file name of Filenames.
NameSpecInit == RowIdle /\ NameInit /\ FileIdle
NameNext == CallParseFilename
SpecName == NameSpecInit /\ [][NameNext]_vars

(***************************************************************************)
(* Properties of parse_row (SpecRow).                                       *)
(***************************************************************************)
AllIndexed == \A k \in 1..Len(cells) : cells[k].index # None
IndexOf(k) == Get(IntOf(Get(cells[k].index)))
Increasing == \A k \in 1..(Len(cells) - 1) : IndexOf(k) < IndexOf(k + 1)
Sequential == \A k \in 1..Len(cells) : IndexOf(k) = k
MaxIndexOf == SetMax({IndexOf(k) : k \in 1..Len(cells)})

\* The returned row holds each cell's text at position index-1 and None
\* everywhere else, and ends at the last cell.
PlacedByIndex ==
  /\ Len(row_values) = (IF cells = <<>> THEN 0 ELSE IndexOf(Len(cells)))
  /\ \A k \in 1..Len(cells) : row_values[IndexOf(k)] = cells[k].data
  /\ \A i \in 1..Len(row_values) :
       (\A k \in 1..Len(cells) : IndexOf(k) # i) => row_values[i] = None

\* C8: for a row whose cells carry explicit, strictly increasing 1-based
\* indices the returned row holds each cell's text at position index-1 and
\* None at every other position, so sequential indices give the texts in
\* order with no placeholder; a cell without an index is appended right
\* after the previous cell; a row without cells gives an empty row.
C8_SparsePlacement ==
  /\ [](rpc = "done" /\ AllIndexed /\ Increasing => PlacedByIndex)
  /\ [](rpc = "done" /\ AllIndexed /\ Sequential =>
          row_values = [k \in 1..Len(cells) |-> cells[k].data])
  /\ [](rpc = "done" /\ cells = <<>> => row_values = <<>>)
  /\ [][rpc = "loop" /\ ci < Len(cells) /\ cells[ci + 1].index = None =>
          row_values' = Append(row_values, cells[ci + 1].data)]_vars

C8_Witness ==
  /\ rpc = "done"
  /\ cells = <<Cell(Some(<<"1">>), Some(<<"a">>)), Cell(Some(<<"3">>), Some(<<"c">>))>>
  /\ row_values = <<Some(<<"a">>), None, Some(<<"c">>)>>

\* C10 as stated: whatever the order of the explicit indices, the row is as
\* long as the highest index and holds None wherever no cell carried the
\* position's index.
C10_LengthIsMaxIndex ==
  rpc = "done" /\ cells # <<>> /\ AllIndexed =>
    /\ Len(row_values) = MaxIndexOf
    /\ \A i \in 1..Len(row_values) :
         (\A k \in 1..Len(cells) : IndexOf(k) # i) => row_values[i] = None

\* C10, amended: for a non-empty row of explicitly indexed cells the length
\* of the returned row is the greatest, over the cells, of the cell's index
\* plus the number of cells after it; it is never less than the highest
\* index nor than the number of cells, and it is the highest index, with
\* None wherever no cell carried the position's index, when the indices are
\* strictly increasing.
C10_LengthAmended ==
  rpc = "done" /\ cells # <<>> /\ AllIndexed =>
    /\ Len(row_values) =
         SetMax({IndexOf(k) + (Len(cells) - k) : k \in 1..Len(cells)})
    /\ Len(row_values) >= MaxIndexOf
    /\ Len(row_values) >= Len(cells)
    /\ Increasing =>
         /\ Len(row_values) = MaxIndexOf
         /\ \A i \in 1..Len(row_values) :
              (\A k \in 1..Len(cells) : IndexOf(k) # i) => row_values[i] = None

C10_Witness ==
  /\ rpc = "done"
  /\ Len(cells) = 2 /\ AllIndexed
  /\ IndexOf(1) = 3 /\ IndexOf(2) = 1
  /\ Len(row_values) = 4
  /\ row_values[4] = cells[2].data

(***************************************************************************)
(* Properties of parse_filename (SpecName).                                 *)
(***************************************************************************)
\* The 0-based index of the first "Treadmill" token of a token list that
\* holds one.
FirstTreadmill(tokens) ==
  SetMin({i \in 1..Len(tokens) : tokens[i] = TREADMILL}) - 1
HasTreadmill(tokens) == \E i \in 1..Len(tokens) : tokens[i] = TREADMILL

\* The example of the specification and the example of the docstring.
SpecExample ==
  MkFilename(<<>>, <<JOHN>>, TREADMILL, <<<<"8">>, <<"k","m">>>>, <<"S","1">>, M, 0, DOT_XML)
DocExample ==
  MkFilename(<<>>, <<JOHN>>, TREADMILL, <<<<"8","k","m">>>>, <<"S","1">>, M, 0, DOT_XML)

\* C6 as stated: parsing succeeds only with at least 11 tokens after the
\* Treadmill token.
C6_ElevenTokensAfter ==
  LET tokens == FileTokens(filename)
  IN npc = "done" /\ HasTreadmill(tokens) /\ name_out.ok =>
       Len(tokens) - FirstTreadmill(tokens) - 1 >= 11

\* C6, amended: with "Treadmill" first at index k, parsing succeeds exactly
\* when at least 10 tokens follow index k, and fails with the
\* insufficient-tokens error otherwise; whenever it succeeds the tokens at
\* k+9 and k+10 exist.
C6_TenTokensAfter ==
  LET tokens == FileTokens(filename)
      k == FirstTreadmill(tokens)
  IN npc = "done" /\ HasTreadmill(tokens) =>
       /\ name_out.ok <=> Len(tokens) - k - 1 >= 10
       /\ ~name_out.ok => name_out.err = "ValueError: not enough tokens"
       /\ name_out.ok => k + 10 < Len(tokens)

C6_Witness ==
  LET tokens == FileTokens(filename)
  IN /\ npc = "done" /\ HasTreadmill(tokens) /\ name_out.ok
     /\ Len(tokens) - FirstTreadmill(tokens) - 1 = 10

\* C7 as stated: the session label is the token with exactly 9 tokens
\* between "Treadmill" and itself, the music token the one after it, and
\* the specification's example yields session "S1".
C7_NineTokenGap ==
  LET tokens == FileTokens(filename)
      k == FirstTreadmill(tokens)
  IN npc = "done" /\ name_out.ok =>
       /\ name_out.val.session = At(tokens, k + 10)
       /\ filename = SpecExample => name_out.val.session = <<"S","1">>

\* C7, amended: the session label is the token at offset 9 from
\* "Treadmill" (exactly 8 tokens between them) and the music condition is
\* classified from the token at offset 10; the surname is token 0 and the
\* given name the space-join of the tokens strictly between token 0 and
\* "Treadmill".  The docstring's example (speed written "8km") yields
\* session "S1" and "musica"; the specification's example (speed written
\* "8_km") yields session "00" and the music label "S1".
C7_EightTokenGap ==
  LET tokens == FileTokens(filename)
      k == FirstTreadmill(tokens)
  IN npc = "done" /\ name_out.ok =>
       /\ name_out.val.session = At(tokens, k + 9)
       /\ name_out.val.musica = Musica(At(tokens, k + 10))
       /\ name_out.val.surname = At(tokens, 0)
       /\ name_out.val.name = Join(SubSeq(tokens, 2, k), <<" ">>)
       /\ filename = DocExample =>
            name_out.val = [surname |-> DOE, name |-> JOHN,
                            session |-> <<"S","1">>, musica |-> MUSICA]
       /\ filename = SpecExample =>
            name_out.val = [surname |-> DOE, name |-> JOHN,
                            session |-> <<"0","0">>, musica |-> <<"S","1">>]

C7_Witness ==
  /\ npc = "done" /\ name_out.ok
  /\ filename = DocExample
  /\ name_out.val.session = <<"S","1">>
  /\ name_out.val.musica = MUSICA

(***************************************************************************)
(* Properties of process_single_file.  The reference below reads the        *)
(* reconstructed table directly: the number in a cell, the rows before the  *)
(* STOP row, the rows whose time lies in the window.                        *)
(***************************************************************************)
NumCols == Len(parsed_rows[1])
MeasureCols == (tempo_col + 1)..(NumCols - 1)
DistCol == tempo_col + 1

\* The number in cell (i, col) of the table, None when the cell is absent,
\* blank or not a number.
NumAt(i, col) ==
  LET row == At(parsed_rows, i)
  IN IF col < Len(row) /\ At(row, col) # None
     THEN CellFloat(Get(At(row, col))) ELSE None

TimeAt(i) == NumAt(i, tempo_col)

\* stop - 900 <= t <= stop, on the numerators and denominators.
Within(t, stop) ==
  /\ (stop.n - 900 * stop.d) * t.d <= t.n * stop.d
  /\ t.n * stop.d <= stop.n * t.d

InsideWindow(i) == TimeAt(i) # None /\ Within(Get(TimeAt(i)), Get(T_stop))

\* The data rows before the STOP row.
RowsBeforeStop == {i \in 1..(Len(parsed_rows) - 1) : i < Get(stop_row_index)}

\* The rows that contribute to column col.
Contributing(col) ==
  {i \in RowsBeforeStop : InsideWindow(i) /\ NumAt(i, col) # None}

RECURSIVE SumOver(_, _)
SumOver(S, col) ==
  IF S = {} THEN [n |-> 0, d |-> 1]
  ELSE LET i == CHOOSE x \in S : TRUE
           rest == SumOver(S \ {i}, col)
           x == Get(NumAt(i, col))
       IN [n |-> rest.n * x.d + x.n * rest.d, d |-> rest.d * x.d]

Reduced ==
  sums' # sums \/ counts' # counts \/ last_values' # last_values

\* C1: no row at or after the STOP row contributes to a reduction: every
\* update of the sums, counts and last value is made for a data row before
\* the STOP row, and what is returned is accounted for by those rows alone.
C1_NothingFromStopOn ==
  /\ [][pc = "reduce" /\ Reduced => 1 <= r /\ r < Get(stop_row_index)]_vars
  /\ [](pc = "done" =>
          /\ \A col \in MeasureCols : counts[col] <= Cardinality(RowsBeforeStop)
          /\ \A col \in MeasureCols : last_values[col] # None =>
               \E i \in RowsBeforeStop : NumAt(i, col) = last_values[col])

\* A row after the STOP row lies in the window and holds numbers, and
\* nothing was reduced.
C1_Witness ==
  /\ pc = "done"
  /\ Get(stop_row_index) >= 1
  /\ \E i \in 1..(Len(parsed_rows) - 1) :
       /\ i > Get(stop_row_index)
       /\ InsideWindow(i)
       /\ \A col \in MeasureCols \ {NumCols - 1} : NumAt(i, col) # None
  /\ InsideWindow(Get(stop_row_index))
  /\ MeasureCols # {}
  /\ \A col \in MeasureCols : counts[col] = 0 /\ last_values[col] = None

HasNumber(i) == \E col \in MeasureCols : NumAt(i, col) # None

\* C2: T_start is T_stop - 900, unclamped; a row before the STOP row whose
\* time parses is reduced exactly when T_start <= t <= T_stop, both ends
\* included; a row whose time is missing or unparsable is skipped and the
\* file goes on.
C2_WindowInclusive ==
  /\ [](pc \in {"reduce", "done"} =>
          LET a == Get(T_start)
              b == Get(T_stop)
          IN a.n * b.d = (b.n - 900 * b.d) * a.d)
  /\ [](pc = "done" => res.T_start = Get(T_start) /\ res.T_stop = Get(T_stop))
  /\ [][pc = "reduce" /\ r' = r + 1 =>
          /\ Reduced <=> (TimeAt(r) # None /\ InsideWindow(r) /\ HasNumber(r))
          /\ pc' = "reduce"]_vars
  /\ [][pc = "reduce" => pc' \in {"reduce", "done"}]_vars

\* T_start is negative, a row at T_start exactly was reduced and a row
\* with an unparsable time was skipped.
C2_Witness ==
  /\ pc = "done"
  /\ res.T_start.n < 0
  /\ \E i \in RowsBeforeStop : TimeAt(i) = T_start
  /\ \E i \in RowsBeforeStop :
       /\ Len(At(parsed_rows, i)) > tempo_col
       /\ At(At(parsed_rows, i), tempo_col) # None
       /\ TimeAt(i) = None
  /\ counts[tempo_col + 2] = 1

C4_MeanOfContributing ==
  pc = "done" =>
    \A col \in MeasureCols \ {DistCol} :
      LET S == Contributing(col)
          total == SumOver(S, col)
          m == res.Measurements[col - tempo_col]
      IN IF S = {} THEN m = None
         ELSE /\ m # None
              /\ Get(m).n * total.d * Cardinality(S) = total.n * Get(m).d

\* A column averages two cells while a row in the window holds an
\* unparsable cell in it and a number in the next column; another column
\* has no contributing cell.
C4_Witness ==
  /\ pc = "done"
  /\ NumCols = tempo_col + 4
  /\ Cardinality(Contributing(tempo_col + 2)) = 2
  /\ \E i \in RowsBeforeStop :
       /\ InsideWindow(i)
       /\ Len(At(parsed_rows, i)) > tempo_col + 2
       /\ At(At(parsed_rows, i), tempo_col + 2) # None
       /\ NumAt(i, tempo_col + 2) = None
       /\ i \in Contributing(tempo_col + 3)
  /\ res.Measurements[2] # None
  /\ res.Measurements[3] # None

\* The data rows whose marker cell contains the STOP text.
StopRowsOf(rows, hc) ==
  {i \in 1..(Len(rows) - 1) :
     LET row == At(rows, i)
     IN Len(row) > hc /\ At(row, hc) # None /\ Contains(Get(At(row, hc)), STOP_MARK)}

\* C9: the STOP row is the first data row (index >= 1) whose marker cell
\* contains the STOP text; the file fails when there is none, and when that
\* row's time is missing or not a number.
C9_FirstDataStopRow ==
  /\ pc \in {"reduce", "done"} =>
       LET S == StopRowsOf(parsed_rows, hash_col)
       IN /\ S # {}
          /\ stop_row_index = Some(SetMin(S))
          /\ TimeAt(SetMin(S)) = T_stop
          /\ T_stop # None
  /\ pc = "raised" /\ subject # <<>> =>
       LET S == StopRowsOf(parsed_rows, hash_col)
       IN S = {} \/ TimeAt(SetMin(S)) = None

(***************************************************************************)
(* Properties of process_multiple_files (SpecBatch).                        *)
(***************************************************************************)
\* What decides a file of BatchEntries: a table, a "Treadmill" token in the
\* name, a cell with the STOP text.
HasStopCell(f) ==
  \E i \in 1..Len(Get(f.table)) : \E j \in 1..Len(Get(f.table)[i]) :
    LET data == Get(f.table)[i][j].data
    IN data # None /\ Contains(Get(data), STOP_MARK)
Succeeds(f) ==
  f.table # None /\ HasTreadmill(FileTokens(f.name)) /\ HasStopCell(f)
IsGood(e) == e # None /\ Succeeds(Get(e))
IsBad(e) == e # None /\ ~Succeeds(Get(e))

\* The measurement headers of a file of BatchEntries: the last three cells
\* of its header row.
HeadersOf(f) ==
  LET h == Get(f.table)[1]
  IN [k \in 1..3 |-> h[Len(h) - 3 + k].data]

\* C5: a failing file never aborts the batch: every file is visited, the
\* results are those of the succeeding files in input order, one error is
\* reported for each failing file under its name, and the headers are those
\* of the first succeeding file, None when there is none.
C5_BatchIsolation ==
  /\ [](pc \in {"loop", "prepare", "scan", "reduce", "done", "raised", "returned"})
  /\ [](pc = "loop" => fi <= Len(file_list))
  /\ [](pc \in {"prepare", "scan", "reduce", "done", "raised"} =>
          fi < Len(file_list) /\ file_list[fi + 1] # None)
  /\ [][pc = "raised" =>
          /\ pc' = "loop" /\ fi' = fi + 1
          /\ errors' = Append(errors, [file |-> Get(file_list[fi + 1]).name,
                                       error |-> raised])
          /\ results' = results
          /\ measurement_headers' = measurement_headers]_vars
  /\ [](pc = "returned" =>
       LET good == SelectSeq(file_list, IsGood)
           bad == SelectSeq(file_list, IsBad)
       IN /\ fi = Len(file_list)
          /\ Len(results) = Len(good)
          /\ \A i \in 1..Len(good) :
               /\ results[i].Nome = ParseFilename(Get(good[i]).name).val.name
               /\ results[i].MeasurementHeaders = HeadersOf(Get(good[i]))
          /\ Len(errors) = Len(bad)
          /\ \A i \in 1..Len(bad) : errors[i].file = Get(bad[i]).name
          /\ measurement_headers =
               (IF good = <<>> THEN None ELSE Some(HeadersOf(Get(good[1])))))

\* The second of three files fails and the other two are returned.
C5_Witness ==
  /\ pc = "returned"
  /\ file_list = <<Some(GoodA), Some(NoStopFile), Some(GoodB)>>
  /\ Len(results) = 2
  /\ Len(errors) = 1
  /\ errors[1].file = NoStopFile.name
  /\ measurement_headers = Some(HeadersOf(GoodA))

====
